---- MODULE Spec2Model ----
(***************************************************************************)
(* A model of the port scanner of Security_Toolkit:                        *)
(*   tools/port_scanner/port_utils.py  parse_ports, normalize_targets      *)
(*   tools/port_scanner/scanner.py     connect_scan and its closure worker *)
(*                                                                         *)
(* Python strings are sequences of one-character strings, so that          *)
(* splitting, stripping, integer parsing and regular-expression matching   *)
(* are computed character by character.  A value that may be None is a     *)
(* tuple of length 0 (None) or 1 (the value).                              *)
(*                                                                         *)
(* scanner.py is a sketch: it uses names it never defines (now,            *)
(* timeout_exception, connection_refused_exception, banner_grab) and       *)
(* writes a result record as {target, port, status="simulated", ...}.      *)
(* The model reads these by their evident meaning: now() reads the clock,  *)
(* the two exception names are the socket layer's timeout and refusal      *)
(* signals, and the braces build a record.  Control flow (where the        *)
(* return statements stand, what is called and what is not) is modelled    *)
(* exactly as written.                                                     *)
(***************************************************************************)
EXTENDS Integers, Sequences, FiniteSets, TLC

VARIABLES
    \* ---- parse_ports
    port_tokens,    \* the tokens the port specification was written from
    port_spec,      \* parse_ports' argument
    ports_out,      \* parse_ports' outcome, None before the call
    \* ---- normalize_targets
    target_tokens,  \* the tokens (or file lines) the target input was written from
    target_spec,    \* normalize_targets' argument: the targets, or a file's path
    file_text,      \* the content of the file at that path
    file_mode,      \* normalize_targets' argument
    is_file,        \* os.path.isfile(target_spec)
    readable,       \* whether open()/reading the file succeeds
    targets_out,    \* normalize_targets' outcome, None before the call
    \* ---- connect_scan
    target, ports, timeout, concurrency, dry_run, banner,  \* its parameters
    pc,             \* position in connect_scan
    results,        \* the local list `results`
    ret,            \* what connect_scan returned: None before it returns
    clock,          \* the wall clock read by now()
    \* ---- worker(port)
    wport,          \* worker's argument
    wpc,            \* position in worker
    sock,           \* the socket s: "none", "created", "connected", "closed"
    sockets_created,\* number of socket.socket() calls made so far
    exc,            \* the exception in flight inside the try block
    start, end, status, latency, banner_text,  \* worker's locals
    banner_fault,   \* whether the banner read met a fault or timed out
    wret            \* what worker returned: None before it returns

parse_vars   == <<port_tokens, port_spec, ports_out>>
target_vars  == <<target_tokens, target_spec, file_text, file_mode, is_file, readable,
                  targets_out>>
scan_vars    == <<target, ports, timeout, concurrency, dry_run, banner, pc, results, ret>>
worker_vars  == <<wport, wpc, sock, sockets_created, exc, start, end, status,
                  latency, banner_text, banner_fault, wret>>
vars == <<parse_vars, target_vars, scan_vars, clock, worker_vars>>

None == <<>>
Some(x) == <<x>>

-----------------------------------------------------------------------------
(* Python string primitives                                                *)

Digits == {"0", "1", "2", "3", "4", "5", "6", "7", "8", "9"}

DigitVal(c) ==
    CASE c = "0" -> 0 [] c = "1" -> 1 [] c = "2" -> 2 [] c = "3" -> 3 [] c = "4" -> 4
      [] c = "5" -> 5 [] c = "6" -> 6 [] c = "7" -> 7 [] c = "8" -> 8 [] c = "9" -> 9

Whitespace == {" ", "\n"}

\* str.strip()
RECURSIVE LStrip(_)
LStrip(s) == IF s # <<>> /\ Head(s) \in Whitespace THEN LStrip(Tail(s)) ELSE s

RECURSIVE RStrip(_)
RStrip(s) ==
    IF s # <<>> /\ s[Len(s)] \in Whitespace THEN RStrip(SubSeq(s, 1, Len(s) - 1)) ELSE s

Strip(s) == RStrip(LStrip(s))

\* index of the first occurrence of character c in s, 0 if there is none
IndexOf(s, c) ==
    IF \E i \in 1..Len(s) : s[i] = c
    THEN CHOOSE i \in 1..Len(s) : s[i] = c /\ \A j \in 1..(i - 1) : s[j] # c
    ELSE 0

\* str.split(sep) for a one-character separator: "".split(",") is [""]
RECURSIVE Split(_, _)
Split(s, sep) ==
    LET i == IndexOf(s, sep)
    IN  IF i = 0 THEN <<s>>
        ELSE <<SubSeq(s, 1, i - 1)>> \o Split(SubSeq(s, i + 1, Len(s)), sep)

\* sep.join(parts)
RECURSIVE Join(_, _)
Join(parts, sep) ==
    IF parts = <<>> THEN <<>>
    ELSE IF Len(parts) = 1 THEN parts[1]
    ELSE parts[1] \o <<sep>> \o Join(Tail(parts), sep)

RECURSIVE DecimalValue(_)
DecimalValue(s) ==
    IF s = <<>> THEN 0
    ELSE 10 * DecimalValue(SubSeq(s, 1, Len(s) - 1)) + DigitVal(s[Len(s)])

\* int(s): surrounding whitespace is ignored, one sign is allowed, then one or
\* more decimal digits; anything else raises ValueError (ok = FALSE).
PyInt(s) ==
    LET t == Strip(s)
        signed == t # <<>> /\ Head(t) \in {"+", "-"}
        d == IF signed THEN Tail(t) ELSE t
    IN  IF d # <<>> /\ \A i \in 1..Len(d) : d[i] \in Digits
        THEN [ok |-> TRUE,
              val |-> IF signed /\ Head(t) = "-" THEN 0 - DecimalValue(d)
                      ELSE DecimalValue(d)]
        ELSE [ok |-> FALSE, val |-> 0]

\* sorted(S) for a set of integers
RECURSIVE Sorted(_)
Sorted(S) ==
    IF S = {} THEN <<>>
    ELSE LET m == CHOOSE x \in S : \A y \in S : x <= y
         IN  <<m>> \o Sorted(S \ {m})

Range(s) == {s[i] : i \in 1..Len(s)}

-----------------------------------------------------------------------------
(* port_utils.parse_ports                                                  *)

MinPort == 1
MaxPort == 65535

DefaultPorts == <<21, 22, 23, 25, 53, 80, 443>>

Raised == [raised |-> TRUE, value |-> <<>>]
Returned(v) == [raised |-> FALSE, value |-> v]

\* `start < 1 or end > 65535 or start > end`, the mutant forgets the upper bound
RangeOutOfBoundsNoUpper(lo, hi) == lo < MinPort \/ lo > hi
RangeOutOfBounds(lo, hi) == lo < MinPort \/ hi > MaxPort \/ lo > hi

\* `p < 1 or p > 65535`
PortOutOfRange(p) == p < MinPort \/ p > MaxPort

\* One iteration of the loop over the tokens: the ports the token adds to
\* final_ports, or a raise.
ParseToken(token) ==
    IF IndexOf(token, "-") # 0
    THEN LET parts == Split(token, "-")
         IN  IF Len(parts) # 2 THEN Raised
             ELSE LET a == PyInt(parts[1])
                      b == PyInt(parts[2])
                  IN  IF ~a.ok \/ ~b.ok THEN Raised
                      ELSE IF RangeOutOfBounds(a.val, b.val) THEN Raised
                      ELSE Returned(a.val..b.val)
    ELSE LET p == PyInt(token)
         IN  IF ~p.ok THEN Raised
             ELSE IF PortOutOfRange(p.val) THEN Raised
             ELSE Returned({p.val})

\* The loop: final_ports after the tokens from index i on, or a raise at the
\* first bad token.
RECURSIVE ParseLoop(_, _, _)
ParseLoop(tokens, i, final_ports) ==
    IF i > Len(tokens) THEN Returned(final_ports)
    ELSE LET r == ParseToken(tokens[i])
         IN  IF r.raised THEN Raised
             ELSE ParseLoop(tokens, i + 1, final_ports \union r.value)

parse_ports(spec) ==
    IF spec = <<>> THEN Returned(DefaultPorts)
    ELSE LET split_by_comma == [i \in 1..Len(Split(spec, ",")) |-> Strip(Split(spec, ",")[i])]
             r == ParseLoop(split_by_comma, 1, {})
         IN  IF r.raised THEN Raised ELSE Returned(Sorted(r.value))

-----------------------------------------------------------------------------
(* Regular expressions (re.compile / Pattern.match)                        *)
(* A pattern is a tree; Ends(r, s, i) is the set of positions at which a   *)
(* match of r that starts at position i of s can end.                      *)

Lower == {"a", "b", "c", "d", "e", "f", "g", "h", "i", "j", "k", "l", "m",
          "n", "o", "p", "q", "r", "s", "t", "u", "v", "w", "x", "y", "z"}
Upper == {"A", "B", "C", "D", "E", "F", "G", "H", "I", "J", "K", "L", "M",
          "N", "O", "P", "Q", "R", "S", "T", "U", "V", "W", "X", "Y", "Z"}
HexDigits == Digits \union {"a", "b", "c", "d", "e", "f", "A", "B", "C", "D", "E", "F"}

Cls(S) == [t |-> "set", chars |-> S]
Lit(c) == Cls({c})
Cat(parts) == [t |-> "seq", parts |-> parts]
Alt(alts) == [t |-> "alt", alts |-> alts]
\* r{lo,hi}; hi = -1 is "no upper limit"
Rep(r, lo, hi) == [t |-> "rep", r |-> r, lo |-> lo, hi |-> hi]
Opt(r) == Rep(r, 0, 1)
\* (?!c) and (?<!c)
NotAhead(c) == [t |-> "notahead", chars |-> {c}]
NotBehind(c) == [t |-> "notbehind", chars |-> {c}]

RECURSIVE Ends(_, _, _)
Ends(r, s, i) ==
    CASE r.t = "set" -> IF i <= Len(s) /\ s[i] \in r.chars THEN {i + 1} ELSE {}
      [] r.t = "notahead" -> IF i <= Len(s) /\ s[i] \in r.chars THEN {} ELSE {i}
      [] r.t = "notbehind" -> IF i > 1 /\ s[i - 1] \in r.chars THEN {} ELSE {i}
      [] r.t = "seq" ->
            IF r.parts = <<>> THEN {i}
            ELSE UNION {Ends(Cat(Tail(r.parts)), s, j) : j \in Ends(Head(r.parts), s, i)}
      [] r.t = "alt" -> UNION {Ends(r.alts[k], s, i) : k \in 1..Len(r.alts)}
      [] r.t = "rep" ->
            (IF r.lo = 0 THEN {i} ELSE {})
            \union
            (IF r.hi = 0 THEN {}
             ELSE UNION {Ends(Rep(r.r, IF r.lo > 0 THEN r.lo - 1 ELSE 0,
                                  IF r.hi > 0 THEN r.hi - 1 ELSE r.hi), s, j)
                         : j \in Ends(r.r, s, i)})

\* pattern.match(s) for a pattern written ^...$ (s holds no newline)
Matches(r, s) == (Len(s) + 1) \in Ends(r, s, 1)

-----------------------------------------------------------------------------
(* port_utils.normalize_targets                                            *)

\* (?:25[0-5]|2[0-4]\d|[01]?\d\d?)
Octet ==
    Alt(<<Cat(<<Lit("2"), Lit("5"), Cls({"0", "1", "2", "3", "4", "5"})>>),
          Cat(<<Lit("2"), Cls({"0", "1", "2", "3", "4"}), Cls(Digits)>>),
          Cat(<<Opt(Cls({"0", "1"})), Cls(Digits), Opt(Cls(Digits))>>)>>)

ipv4_pattern == Cat(<<Rep(Cat(<<Octet, Lit(".")>>), 3, 3), Octet>>)

\* [0-9a-fA-F]{1,4}
Hextet == Rep(Cls(HexDigits), 1, 4)
\* ([0-9a-fA-F]{1,4}:){lo,hi}
HextetColon(lo, hi) == Rep(Cat(<<Hextet, Lit(":")>>), lo, hi)
\* (:[0-9a-fA-F]{1,4}){lo,hi}
ColonHextet(lo, hi) == Rep(Cat(<<Lit(":"), Hextet>>), lo, hi)
\* (25[0-5]|(2[0-4]|1{0,1}[0-9])?[0-9])
Octet6 ==
    Alt(<<Cat(<<Lit("2"), Lit("5"), Cls({"0", "1", "2", "3", "4", "5"})>>),
          Cat(<<Opt(Alt(<<Cat(<<Lit("2"), Cls({"0", "1", "2", "3", "4"})>>),
                          Cat(<<Rep(Lit("1"), 0, 1), Cls(Digits)>>)>>)),
                Cls(Digits)>>)>>)
\* (octet\.){3,3}octet
Dotted6 == Cat(<<Rep(Cat(<<Octet6, Lit(".")>>), 3, 3), Octet6>>)

ipv6_pattern ==
    Alt(<<Cat(<<HextetColon(7, 7), Hextet>>),
          Cat(<<HextetColon(1, 7), Lit(":")>>),
          Cat(<<HextetColon(1, 6), Lit(":"), Hextet>>),
          Cat(<<HextetColon(1, 5), ColonHextet(1, 2)>>),
          Cat(<<HextetColon(1, 4), ColonHextet(1, 3)>>),
          Cat(<<HextetColon(1, 3), ColonHextet(1, 4)>>),
          Cat(<<HextetColon(1, 2), ColonHextet(1, 5)>>),
          Cat(<<Hextet, Lit(":"), ColonHextet(1, 6)>>),
          Cat(<<Lit(":"), Alt(<<ColonHextet(1, 7), Lit(":")>>)>>),
          Cat(<<Lit("f"), Lit("e"), Lit("8"), Lit("0"), Lit(":"),
                Rep(Cat(<<Lit(":"), Rep(Cls(HexDigits), 0, 4)>>), 0, 4),
                Lit("%"), Rep(Cls(Digits \union Lower \union Upper), 1, -1)>>),
          Cat(<<Lit(":"), Lit(":"),
                Rep(Cat(<<Lit("f"), Lit("f"), Lit("f"), Lit("f"),
                          Rep(Cat(<<Lit(":"), Rep(Lit("0"), 1, 4)>>), 0, 1),
                          Lit(":")>>), 0, 1),
                Dotted6>>),
          Cat(<<HextetColon(1, 4), Lit(":"), Dotted6>>)>>)

\* [A-Za-z0-9-]{1,63}
Label == Rep(Cls(Upper \union Lower \union Digits \union {"-"}), 1, 63)

\* ^(?!-)[A-Za-z0-9-]{1,63}(?<!-)(\.[A-Za-z0-9-]{1,63})+$
hostname_pattern ==
    Cat(<<NotAhead("-"), Label, NotBehind("-"), Rep(Cat(<<Lit("."), Label>>), 1, -1)>>)

is_valid_target(t) ==
    Matches(ipv4_pattern, t) \/ Matches(ipv6_pattern, t) \/ Matches(hostname_pattern, t)

\* unique_preserve_order: `seen` is the set of the items already appended
RECURSIVE unique_preserve_order(_)
unique_preserve_order(seq) ==
    IF seq = <<>> THEN <<>>
    ELSE LET rest == unique_preserve_order(SubSeq(seq, 1, Len(seq) - 1))
             item == seq[Len(seq)]
         IN  IF item \in Range(rest) THEN rest ELSE Append(rest, item)

\* `for line in f`: the lines of the text, each with its newline
RECURSIVE Lines(_)
Lines(text) ==
    LET i == IndexOf(text, "\n")
    IN  IF text = <<>> THEN <<>>
        ELSE IF i = 0 THEN <<text>>
        ELSE <<SubSeq(text, 1, i)>> \o Lines(SubSeq(text, i + 1, Len(text)))

\* The body shared by the two loops: strip, skip the empty and the '#' ones,
\* keep the valid ones.
RECURSIVE Collect(_)
Collect(raw) ==
    IF raw = <<>> THEN <<>>
    ELSE LET token == Strip(Head(raw))
         IN  IF token = <<>> \/ Head(token) = "#" THEN Collect(Tail(raw))
             ELSE IF is_valid_target(token) THEN <<token>> \o Collect(Tail(raw))
             ELSE Collect(Tail(raw))

\* spec: the argument; fmode: file_mode; isfile: os.path.isfile(spec);
\* text: the file's content; canread: no OSError while opening and reading
normalize_targets(spec, fmode, isfile, text, canread) ==
    IF (fmode \/ isfile) /\ ~canread THEN Raised
    ELSE LET targets == IF fmode \/ isfile THEN Collect(Lines(text))
                        ELSE Collect(Split(spec, ","))
         IN  IF targets = <<>> THEN Raised
             ELSE Returned(unique_preserve_order(targets))

-----------------------------------------------------------------------------
(* scanner.connect_scan                                                    *)

\* line 9: the record appended in the dry-run loop; the mutant reports a
\* latency of 0 instead of None
SimulatedResultZeroLatency(t, p, now) ==
    [target |-> t, port |-> p, status |-> "simulated", latency_ms |-> Some(0),
     banner |-> None, timestamp |-> now]
SimulatedResult(t, p, now) ==
    [target |-> t, port |-> p, status |-> "simulated", latency_ms |-> None,
     banner |-> None, timestamp |-> now]

\* lines 5-7: results = [] and the test of dry_run
EnterScan ==
    /\ pc = "entry"
    /\ results' = <<>>
    /\ pc' = IF dry_run THEN "dry_run_loop" ELSE "def_worker"
    /\ UNCHANGED <<target, ports, timeout, concurrency, dry_run, banner, ret>>
    /\ UNCHANGED <<parse_vars, target_vars, clock, worker_vars>>

\* lines 8-10: the first iteration of `for port in ports` appends one record
\* and returns results: the return statement stands inside the loop body
DryRunIteration ==
    /\ pc = "dry_run_loop"
    /\ ports # <<>>
    /\ results' = Append(results, SimulatedResult(target, Head(ports), clock))
    /\ ret' = Some(results')
    /\ pc' = "returned"
    /\ UNCHANGED <<target, ports, timeout, concurrency, dry_run, banner>>
    /\ UNCHANGED <<parse_vars, target_vars, clock, worker_vars>>

\* line 8 with an empty `ports`: the loop body never runs and control falls
\* through to the definition of worker
DryRunNoPorts ==
    /\ pc = "dry_run_loop"
    /\ ports = <<>>
    /\ pc' = "def_worker"
    /\ UNCHANGED <<target, ports, timeout, concurrency, dry_run, banner, results, ret>>
    /\ UNCHANGED <<parse_vars, target_vars, clock, worker_vars>>

\* lines 12-39: `def worker` binds the closure; nothing follows it, so
\* connect_scan ends without calling worker and returns None
DefineWorker ==
    /\ pc = "def_worker"
    /\ ret' = None
    /\ pc' = "returned"
    /\ UNCHANGED <<target, ports, timeout, concurrency, dry_run, banner, results>>
    /\ UNCHANGED <<parse_vars, target_vars, clock, worker_vars>>

connect_scan == EnterScan \/ DryRunIteration \/ DryRunNoPorts \/ DefineWorker

-----------------------------------------------------------------------------
(* scanner.connect_scan.worker                                             *)

\* Python's `a or b` on strings: a unless it is empty
PyOr(a, b) == IF a # "" THEN a ELSE b

\* line 28: status = "filtered" or "closed"
TimeoutStatus == PyOr("filtered", "closed")

\* line 21: latency = (end - start) * 1000
LatencyMs(s, e) == (e - s) * 1000

\* the failures of socket() and connect() that are neither timeout nor refusal
OtherFailures == {"gaierror", "unreachable", "emfile"}

\* what connect() raises
ConnectFailures == {"timeout", "refused", "gaierror", "unreachable"}

\* str(e)
ExcText(e) ==
    CASE e = "gaierror" -> "Name or service not known"
      [] e = "unreachable" -> "Network is unreachable"
      [] e = "emfile" -> "Too many open files"
      [] OTHER -> e

\* banner_grab(s, target, port, timeout): text when bytes arrived, None when
\* none did or when the read failed or timed out; it raises nothing
BannerReads == {"text", "nodata", "fault"}
banner_grab(read) == IF read = "text" THEN Some("SSH-2.0") ELSE None

\* worker(p) is called: line 14
WorkerCall(p) ==
    /\ wpc = "idle"
    /\ pc = "def_worker"
    /\ wport' = p
    /\ wpc' = "socket"
    /\ UNCHANGED <<sock, sockets_created, exc, start, end, status, latency,
                   banner_text, banner_fault, wret>>
    /\ UNCHANGED <<parse_vars, target_vars, scan_vars, clock>>

\* lines 16-18: socket.socket(...), settimeout, start = now()
CreateSocket ==
    /\ wpc = "socket"
    /\ sock' = "created"
    /\ sockets_created' = sockets_created + 1
    /\ start' = Some(clock)
    /\ wpc' = "connect"
    /\ UNCHANGED <<wport, exc, end, status, latency, banner_text, banner_fault, wret>>
    /\ UNCHANGED <<parse_vars, target_vars, scan_vars, clock>>

\* line 16: socket.socket(...) raises (no descriptor left)
CreateSocketFails ==
    /\ wpc = "socket"
    /\ exc' = "emfile"
    /\ wpc' = "except"
    /\ UNCHANGED <<wport, sock, sockets_created, start, end, status, latency,
                   banner_text, banner_fault, wret>>
    /\ UNCHANGED <<parse_vars, target_vars, scan_vars, clock>>

\* lines 19-23: connect succeeds after d < timeout
ConnectOpens(d) ==
    /\ wpc = "connect"
    /\ d < timeout
    /\ clock' = clock + d
    /\ sock' = "connected"
    /\ end' = Some(clock')
    /\ latency' = Some(LatencyMs(start[1], clock'))
    /\ status' = Some("open")
    /\ banner_text' = None
    /\ wpc' = IF banner THEN "banner" ELSE "close"
    /\ UNCHANGED <<wport, sockets_created, exc, start, banner_fault, wret>>
    /\ UNCHANGED <<parse_vars, target_vars, scan_vars>>

\* line 19: connect raises; leaving the with block closes the socket.
\* A timeout is raised when the whole timeout has passed, a refusal or
\* another failure before that.
ConnectRaises(e, d) ==
    /\ wpc = "connect"
    /\ IF e = "timeout" THEN d = timeout ELSE d < timeout
    /\ clock' = clock + d
    /\ exc' = e
    /\ sock' = "closed"
    /\ wpc' = "except"
    /\ UNCHANGED <<wport, sockets_created, start, end, status, latency, banner_text,
                   banner_fault, wret>>
    /\ UNCHANGED <<parse_vars, target_vars, scan_vars>>

\* lines 24-25: banner_text = banner_grab(s, target, port, timeout)
BannerGrab(read, d) ==
    /\ wpc = "banner"
    /\ IF read = "text" THEN d < timeout ELSE d <= timeout
    /\ clock' = clock + d
    /\ banner_text' = banner_grab(read)
    /\ banner_fault' = (read = "fault")
    /\ wpc' = "close"
    /\ UNCHANGED <<wport, sock, sockets_created, exc, start, end, status, latency, wret>>
    /\ UNCHANGED <<parse_vars, target_vars, scan_vars>>

\* line 26 and the end of the with block
CloseSocket ==
    /\ wpc = "close"
    /\ sock' = "closed"
    /\ wpc' = "return"
    /\ UNCHANGED <<wport, sockets_created, exc, start, end, status, latency,
                   banner_text, banner_fault, wret>>
    /\ UNCHANGED <<parse_vars, target_vars, scan_vars, clock>>

\* lines 27-30
ExceptTimeout ==
    /\ wpc = "except"
    /\ exc = "timeout"
    /\ status' = Some(TimeoutStatus)
    /\ latency' = None
    /\ banner_text' = None
    /\ wpc' = "return"
    /\ UNCHANGED <<wport, sock, sockets_created, exc, start, end, banner_fault, wret>>
    /\ UNCHANGED <<parse_vars, target_vars, scan_vars, clock>>

\* lines 31-34
ExceptRefused ==
    /\ wpc = "except"
    /\ exc = "refused"
    /\ status' = Some("closed")
    /\ latency' = None
    /\ banner_text' = None
    /\ wpc' = "return"
    /\ UNCHANGED <<wport, sock, sockets_created, exc, start, end, banner_fault, wret>>
    /\ UNCHANGED <<parse_vars, target_vars, scan_vars, clock>>

\* lines 35-38
ExceptOther ==
    /\ wpc = "except"
    /\ exc \in OtherFailures
    /\ status' = Some("error")
    /\ latency' = None
    /\ banner_text' = Some(ExcText(exc))
    /\ wpc' = "return"
    /\ UNCHANGED <<wport, sock, sockets_created, exc, start, end, banner_fault, wret>>
    /\ UNCHANGED <<parse_vars, target_vars, scan_vars, clock>>

\* line 39: a bare `return`: the locals status, latency and banner_text are
\* dropped and the caller receives None
WorkerReturn ==
    /\ wpc = "return"
    /\ wret' = None
    /\ wpc' = "returned"
    /\ UNCHANGED <<wport, sock, sockets_created, exc, start, end, status, latency,
                   banner_text, banner_fault>>
    /\ UNCHANGED <<parse_vars, target_vars, scan_vars, clock>>

-----------------------------------------------------------------------------
(* Inputs                                                                  *)

MaxTokens == 3
MaxTargetTokens == 3
MaxTimeout == 2
MaxConcurrency == 2

\* Port tokens with what each names: ok = a single port or an inclusive
\* range lo..hi inside [1,65535]; otherwise a token parse_ports has to refuse.
PortTokens ==
    {[text |-> <<"2", "2">>, ok |-> TRUE, lo |-> 22, hi |-> 22],
     [text |-> <<"8", "0">>, ok |-> TRUE, lo |-> 80, hi |-> 80],
     [text |-> <<" ", "4", "4", "3", " ">>, ok |-> TRUE, lo |-> 443, hi |-> 443],
     [text |-> <<"1", "0", "0", "0", "-", "1", "0", "0", "2">>, ok |-> TRUE, lo |-> 1000, hi |-> 1002],
     [text |-> <<"7", "9", "-", "8", "1">>, ok |-> TRUE, lo |-> 79, hi |-> 81],
     [text |-> <<"6", "5", "5", "3", "4", "-", "6", "5", "5", "3", "5">>, ok |-> TRUE, lo |-> 65534, hi |-> 65535],
     [text |-> <<"6", "5", "5", "3", "5", "-", "6", "5", "5", "3", "6">>, ok |-> FALSE, lo |-> 0, hi |-> 0],
     [text |-> <<"6", "5", "5", "3", "6">>, ok |-> FALSE, lo |-> 0, hi |-> 0],
     [text |-> <<"0">>, ok |-> FALSE, lo |-> 0, hi |-> 0],
     [text |-> <<"5", "-", "3">>, ok |-> FALSE, lo |-> 0, hi |-> 0],
     [text |-> <<"1", "-", "2", "-", "3">>, ok |-> FALSE, lo |-> 0, hi |-> 0],
     [text |-> <<"x">>, ok |-> FALSE, lo |-> 0, hi |-> 0],
     [text |-> <<>>, ok |-> FALSE, lo |-> 0, hi |-> 0]}

\* Target tokens with the host each names once stripped, and whether that is
\* an IPv4 address, an IPv6 address or a host name of RFC 952 / RFC 1123
\* (labels of letters, digits and hyphens that neither start nor end with a
\* hyphen).
TargetTokens ==
    {[text |-> <<"a", ".", "b">>, host |-> <<"a", ".", "b">>, valid |-> TRUE],
     [text |-> <<" ", "b", ".", "a", " ">>, host |-> <<"b", ".", "a">>, valid |-> TRUE],
     [text |-> <<"a", ".", "b", " ">>, host |-> <<"a", ".", "b">>, valid |-> TRUE],
     [text |-> <<"1", ".", "1", ".", "1", ".", "1">>, host |-> <<"1", ".", "1", ".", "1", ".", "1">>, valid |-> TRUE],
     [text |-> <<":", ":", "1">>, host |-> <<":", ":", "1">>, valid |-> TRUE],
     [text |-> <<"#", "a", ".", "b">>, host |-> <<"#", "a", ".", "b">>, valid |-> FALSE],
     [text |-> <<>>, host |-> <<>>, valid |-> FALSE],
     [text |-> <<"-", "a", ".", "b">>, host |-> <<"-", "a", ".", "b">>, valid |-> FALSE],
     [text |-> <<"a", ".", ".", "b">>, host |-> <<"a", ".", ".", "b">>, valid |-> FALSE],
     [text |-> <<"a", ".", "-", "b">>, host |-> <<"a", ".", "-", "b">>, valid |-> FALSE]}

SeqsUpTo(S, n) == UNION {[1..k -> S] : k \in 0..n}

Texts(tokens) == [i \in 1..Len(tokens) |-> tokens[i].text]

ScanTargets == {"10.0.0.1", "scanme.example"}
ScanPorts == {22, 80, 9999}

ParseIdle ==
    /\ port_tokens = <<>>
    /\ port_spec = <<>>
    /\ ports_out = None

TargetsIdle ==
    /\ target_tokens = <<>>
    /\ target_spec = <<>>
    /\ file_text = <<>>
    /\ file_mode = FALSE
    /\ is_file = FALSE
    /\ readable = FALSE
    /\ targets_out = None

ScanIdle ==
    /\ target = "10.0.0.1"
    /\ ports = <<>>
    /\ timeout = 1
    /\ concurrency = 1
    /\ dry_run = FALSE
    /\ banner = FALSE
    /\ pc = "idle"
    /\ results = <<>>
    /\ ret = None

WorkerIdle ==
    /\ wport = 0
    /\ wpc = "idle"
    /\ sock = "none"
    /\ sockets_created = 0
    /\ exc = "none"
    /\ start = None
    /\ end = None
    /\ status = None
    /\ latency = None
    /\ banner_text = None
    /\ banner_fault = FALSE
    /\ wret = None

\* a call connect_scan(target, ports, timeout, concurrency, dry_run, banner)
\* with a validated (sorted, duplicate-free) port list
ScanArguments ==
    /\ target \in ScanTargets
    /\ ports \in {Sorted(S) : S \in SUBSET ScanPorts}
    /\ timeout \in 1..MaxTimeout
    /\ concurrency \in 1..MaxConcurrency
    /\ dry_run \in BOOLEAN
    /\ banner \in BOOLEAN
    /\ results = <<>>
    /\ ret = None

-----------------------------------------------------------------------------
(* Specification of connect_scan                                           *)

Init ==
    /\ ParseIdle /\ TargetsIdle /\ WorkerIdle
    /\ clock = 0
    /\ ScanArguments
    /\ pc = "entry"

Next == connect_scan

Spec == Init /\ [][Next]_vars

-----------------------------------------------------------------------------
(* Specification of worker: the closure is called on a port, in the state  *)
(* in which connect_scan has defined it (dry_run is false there, or the    *)
(* port list was empty)                                                    *)

WorkerInit ==
    /\ ParseIdle /\ TargetsIdle /\ WorkerIdle
    /\ clock = 0
    /\ ScanArguments
    /\ dry_run => ports = <<>>
    /\ pc = "def_worker"

worker ==
    \/ \E p \in ScanPorts : WorkerCall(p)
    \/ CreateSocket
    \/ CreateSocketFails
    \/ \E d \in 0..MaxTimeout : ConnectOpens(d)
    \/ \E e \in ConnectFailures :
          \E d \in 0..MaxTimeout : ConnectRaises(e, d)
    \/ \E read \in BannerReads : \E d \in 0..MaxTimeout : BannerGrab(read, d)
    \/ CloseSocket
    \/ ExceptTimeout
    \/ ExceptRefused
    \/ ExceptOther
    \/ WorkerReturn

WorkerSpec == WorkerInit /\ [][worker]_vars

-----------------------------------------------------------------------------
(* Specification of parse_ports                                            *)

ParseInit ==
    /\ TargetsIdle /\ ScanIdle /\ WorkerIdle
    /\ clock = 0
    /\ port_tokens \in SeqsUpTo(PortTokens, MaxTokens)
    /\ port_spec = Join(Texts(port_tokens), ",")
    /\ ports_out = None

ParsePorts ==
    /\ ports_out = None
    /\ ports_out' = Some(parse_ports(port_spec))
    /\ UNCHANGED <<port_tokens, port_spec>>
    /\ UNCHANGED <<target_vars, scan_vars, clock, worker_vars>>

ParseSpec == ParseInit /\ [][ParsePorts]_vars

-----------------------------------------------------------------------------
(* Specification of normalize_targets                                      *)

\* Either the targets are given in the string, which names no file, or they
\* are the lines of a file: then target_spec is its path, file_mode is set or
\* the path is found to be a file, and a path that is no file cannot be read.
TargetsInit ==
    /\ ParseIdle /\ ScanIdle /\ WorkerIdle
    /\ clock = 0
    /\ target_tokens \in SeqsUpTo(TargetTokens, MaxTargetTokens)
    /\ \/ /\ target_spec = Join(Texts(target_tokens), ",")
          /\ file_text = <<>>
          /\ file_mode = FALSE
          /\ is_file = FALSE
          /\ readable = FALSE
       \/ /\ target_spec = <<"t", ".", "t", "x", "t">>
          /\ file_text \in {Join(Texts(target_tokens), "\n"),
                            Join(Texts(target_tokens), "\n") \o <<"\n">>}
          /\ file_mode \in BOOLEAN
          /\ is_file \in BOOLEAN
          /\ file_mode \/ is_file
          /\ readable \in BOOLEAN
          /\ readable => is_file
    /\ targets_out = None

NormalizeTargets ==
    /\ targets_out = None
    /\ targets_out' =
          Some(normalize_targets(target_spec, file_mode, is_file, file_text, readable))
    /\ UNCHANGED <<target_tokens, target_spec, file_text, file_mode, is_file, readable>>
    /\ UNCHANGED <<parse_vars, scan_vars, clock, worker_vars>>

TargetsSpec == TargetsInit /\ [][NormalizeTargets]_vars

-----------------------------------------------------------------------------
(* Properties                                                              *)

\* the items of seq from index i on that did not occur before
RECURSIVE KeepFirst(_, _)
KeepFirst(seq, i) ==
    IF i > Len(seq) THEN <<>>
    ELSE (IF \E j \in 1..(i - 1) : seq[j] = seq[i] THEN <<>> ELSE <<seq[i]>>)
         \o KeepFirst(seq, i + 1)

\* the hosts named by the valid tokens, in the tokens' order
RECURSIVE ValidHosts(_)
ValidHosts(tokens) ==
    IF tokens = <<>> THEN <<>>
    ELSE (IF Head(tokens).valid THEN <<Head(tokens).host>> ELSE <<>>)
         \o ValidHosts(Tail(tokens))

\* the ports named by the tokens
NamedPorts(tokens) == UNION {tokens[i].lo..tokens[i].hi : i \in 1..Len(tokens)}

StrictlyAscending(seq) == \A i \in 1..(Len(seq) - 1) : seq[i] < seq[i + 1]

IsSimulated(r) == r.status = "simulated" /\ r.latency_ms = None /\ r.banner = None

\* C1: once connect_scan has returned for a non-empty port list, its report
\* holds exactly one record for each port of the list (for the target), none
\* missing and none twice, whether dry_run is set or not.
C1_OneRecordPerPair ==
    (pc = "returned" /\ ports # <<>>) =>
        /\ ret # None
        /\ Len(ret[1]) = Len(ports)
        /\ \A p \in Range(ports) :
              Cardinality({i \in 1..Len(ret[1]) :
                              ret[1][i].target = target /\ ret[1][i].port = p}) = 1

\* C3: when dry_run is set, every record collected or returned has status
\* simulated with latency_ms and banner None, and no socket is created at any
\* point of the scan.
C3_DryRunSimulates ==
    dry_run =>
        /\ sockets_created = 0
        /\ sock = "none"
        /\ \A i \in 1..Len(results) : IsSimulated(results[i])
        /\ ret # None => \A i \in 1..Len(ret[1]) : IsSimulated(ret[1][i])

\* a dry run has returned a report that holds a record
C3_Witness == dry_run /\ pc = "returned" /\ ret # None /\ Len(ret[1]) > 0

\* What worker has computed when it reaches its return: closed after a
\* refusal, filtered after a timeout, latency and banner_text None in both
\* cases, whatever the port, the target and the time that passed.
ClassifiedAtReturn ==
    wpc \in {"return", "returned"} =>
        /\ exc = "refused" =>
              status = Some("closed") /\ latency = None /\ banner_text = None
        /\ exc = "timeout" =>
              status = Some("filtered") /\ latency = None /\ banner_text = None

\* C4: a probe whose connection attempt was refused yields a result with
\* status closed, one whose attempt timed out a result with status filtered,
\* in both cases with latency_ms and banner None.
C4_RefusedClosedTimeoutFiltered ==
    wpc = "returned" =>
        /\ exc = "refused" =>
              /\ wret # None
              /\ wret[1].status = "closed"
              /\ wret[1].latency_ms = None
              /\ wret[1].banner = None
        /\ exc = "timeout" =>
              /\ wret # None
              /\ wret[1].status = "filtered"
              /\ wret[1].latency_ms = None
              /\ wret[1].banner = None

\* C5: a call of worker hands its caller exactly one result record; after a
\* failure that is neither a timeout nor a refusal the record has status
\* error, latency_ms None and the failure's description as banner.
C5_ProbeYieldsRecord ==
    wpc = "returned" =>
        /\ wret # None
        /\ exc \in OtherFailures =>
              /\ wret[1].status = "error"
              /\ wret[1].latency_ms = None
              /\ wret[1].banner = Some(ExcText(exc))

\* C8: for a non-empty port specification parse_ports raises exactly when
\* some token names no port or range inside [1,65535], and then returns
\* nothing; otherwise it returns a strictly ascending list of integers in
\* [1,65535] whose elements are exactly the ports the tokens name.
C8_ParsePorts ==
    (ports_out # None /\ port_spec # <<>>) =>
        LET r == ports_out[1]
        IN  /\ r.raised <=> \E i \in 1..Len(port_tokens) : ~port_tokens[i].ok
            /\ r.raised => r.value = <<>>
            /\ ~r.raised =>
                  /\ StrictlyAscending(r.value)
                  /\ \A i \in 1..Len(r.value) : r.value[i] \in 1..65535
                  /\ Range(r.value) = NamedPorts(port_tokens)

\* parse_ports("22,80,1000-1002") has returned [22, 80, 1000, 1001, 1002]
C8_Witness ==
    /\ port_spec = <<"2", "2", ",", "8", "0", ",", "1", "0", "0", "0", "-", "1", "0", "0", "2">>
    /\ ports_out = Some(Returned(<<22, 80, 1000, 1001, 1002>>))

\* C9: normalize_targets raises exactly when the input holds no valid token
\* or the file cannot be read; otherwise it returns the valid tokens (IPv4,
\* IPv6 or host name), each once, in the order of their first occurrences,
\* and nothing else.
C9_NormalizeTargets ==
    targets_out # None =>
        LET r == targets_out[1]
            expected == KeepFirst(ValidHosts(target_tokens), 1)
            unreadable == (file_mode \/ is_file) /\ ~readable
        IN  /\ r.raised <=> (unreadable \/ expected = <<>>)
            /\ ~r.raised => r.value = expected

\* What worker has computed once the banner read has failed or timed out on
\* the open connection: status open, the latency measured for the connect,
\* banner_text None.
BannerFaultAtReturn ==
    (banner /\ banner_fault /\ wpc \in {"close", "return", "returned"}) =>
        /\ status = Some("open")
        /\ latency = Some((end[1] - start[1]) * 1000)
        /\ banner_text = None

\* C10: when banner capture was requested and the banner read failed or
\* timed out on the open connection, the probe's result has status open, the
\* latency measured for the connect, and banner None.
C10_BannerFaultKeepsOpen ==
    (banner /\ banner_fault /\ wpc = "returned") =>
        /\ wret # None
        /\ wret[1].status = "open"
        /\ wret[1].latency_ms = Some((end[1] - start[1]) * 1000)
        /\ wret[1].banner = None

====
